---- MODULE Spec2Model ----
(***************************************************************************)
(* SetTrackInfoCommand (src/commands/SetTrackInfoCommand.cpp) and the      *)
(* ownership helpers Maybe, Final_action and ValueRestorer (src/MemoryX.h).*)
(***************************************************************************)
EXTENDS Integers, Sequences, FiniteSets, TLC

VARIABLES
    \* ---- SetTrackInfoCommand and the project it acts on
    tracks,      \* the project's track list, in TrackListIterator order
    focused,     \* the track panel's focused track: a position of tracks, 0 = none
    cmd,         \* the command object's fields
    defined,     \* what DefineParams registered with the shuttle, in order
    before,      \* tracks and focused as they were when Apply was entered
    result,      \* what Apply returned: "none" until it ran
    errors,      \* messages reported through context.Error
    pc,          \* "constructed" -> "defined" -> "applied"
    \* ---- Maybe<X>
    life,        \* each Maybe object: "unborn", "alive" or "dead"
    pp,          \* each Maybe's pp: NULL, or the object built in its buffer
    nextObj,     \* the number of constructions of an X attempted so far
    mlog,        \* the constructor and destructor calls of X, in order
    mlast,       \* the last operation on a Maybe and what it found
    \* ---- Final_action and ValueRestorer
    build,       \* which copies of a returned object the compiler elides
    guards,      \* the Final_action objects of the open scope, oldest first
    calls,       \* the number of finally() calls made
    ran,         \* how often the action of each finally() call has run
    fpc,         \* "open" while the scope is open, then "closed"
    var,         \* the variables a ValueRestorer can be set on
    rs,          \* each ValueRestorer: its lifetime, pointer and deleter
    toks,        \* the number of ValueRestorers constructed on a variable
    ctorValue,   \* the value each of them found in its variable
    restores,    \* how often each of them has restored its variable
    released     \* those of them that release() was called on

applyVars == <<tracks, focused, cmd, defined, before, result, errors, pc>>
maybeVars == <<life, pp, nextObj, mlog, mlast>>
finalVars == <<guards, calls, ran, fpc>>
restorerVars == <<var, rs, toks, ctorValue, restores, released>>

vars == <<applyVars, maybeVars, build, finalVars, restorerVars>>

\* ------------------------------------------------------------------ bounds

\* Small projects hold 0..MaxTracks tracks, of every combination of kinds.
MaxTracks == 2

\* The constructions of an X attempted in one behaviour of the Maybe model.
MaxObjects == 3

\* The finally() calls of one scope, and the Final_action objects it holds.
MaxCalls == 3
MaxGuards == 4

\* The ValueRestorer objects, and the values 0..MaxValue of a variable.
MaxRestorers == 2
MaxValue == 2

\* ------------------------------------------------------- program constants

\* S.Define( mTrackIndex, "TrackIndex", 0, 0, 100 ): the top of the range
\* the shuttle is given for the track index.
TrackIndexMax == 100

\* A project holding more tracks than the shuttle's range admits.
BigProject == TrackIndexMax + 2

\* -------------------------------------------------------------- the tracks

\* WaveTrack is a PlayableTrack; "note" is a PlayableTrack that is no
\* WaveTrack; "label" is a Track that is neither.
Kinds == {"wave", "note", "label"}

IsWaveTrack(t) == t.kind = "wave"
IsPlayableTrack(t) == t.kind \in {"wave", "note"}

\* A track as the project holds it before the command runs: freshly made
\* (deselected, not solo, not muted) or already selected, solo and muted.
NewTrack(k, on) ==
    [kind |-> k, name |-> "Audio Track", pan |-> 0, gain |-> 1,
     selected |-> on, solo |-> on, mute |-> on]

KindAt(i) == IF i % 3 = 1 THEN "wave" ELSE IF i % 3 = 2 THEN "note" ELSE "label"

Projects ==
    UNION {[1..n -> {NewTrack(k, on) : k \in Kinds}] : n \in 0..MaxTracks, on \in BOOLEAN}
    \cup {[i \in 1..BigProject |-> NewTrack(KindAt(i), FALSE)]}

\* ------------------------------------------------------------- the command

\* The presence flags are not set by the constructor.
Indeterminate == "indeterminate"

\* SetTrackInfoCommand::SetTrackInfoCommand()
Constructed ==
    [mTrackIndex |-> 0, mTrackName |-> "unnamed", mPan |-> 0, mGain |-> 1,
     bSelected |-> FALSE, bFocused |-> FALSE, bSolo |-> FALSE, bMute |-> FALSE,
     bHasTrackName |-> Indeterminate, bHasPan |-> Indeterminate,
     bHasGain |-> Indeterminate, bHasSelected |-> Indeterminate,
     bHasFocused |-> Indeterminate, bHasSolo |-> Indeterminate,
     bHasMute |-> Indeterminate]

TrackIndexValues ==
    (-1..MaxTracks) \cup {TrackIndexMax, TrackIndexMax + 1, TrackIndexMax + 2}

\* The values a shuttle leaves in the fields: pan within -1..1, gain within
\* 0..10, as the ranges given to S.Define admit.
FieldValues ==
    { [mTrackName |-> "unnamed", mPan |-> -1, mGain |-> 0, bSelected |-> FALSE,
       bFocused |-> FALSE, bSolo |-> FALSE, bMute |-> FALSE],
      [mTrackName |-> "Vocals", mPan |-> 1, mGain |-> 10, bSelected |-> TRUE,
       bFocused |-> TRUE, bSolo |-> TRUE, bMute |-> TRUE],
      [mTrackName |-> "unnamed", mPan |-> 1, mGain |-> 0, bSelected |-> TRUE,
       bFocused |-> FALSE, bSolo |-> TRUE, bMute |-> FALSE],
      [mTrackName |-> "Vocals", mPan |-> -1, mGain |-> 10, bSelected |-> FALSE,
       bFocused |-> TRUE, bSolo |-> FALSE, bMute |-> TRUE] }

FlagNames ==
    {"bHasTrackName", "bHasPan", "bHasGain", "bHasSelected", "bHasFocused",
     "bHasSolo", "bHasMute"}

\* What a shuttle can leave in the command: a track index, field values, and
\* any combination of presence flags.
Commands ==
    { [mTrackIndex |-> i, mTrackName |-> v.mTrackName, mPan |-> v.mPan,
       mGain |-> v.mGain, bSelected |-> v.bSelected, bFocused |-> v.bFocused,
       bSolo |-> v.bSolo, bMute |-> v.bMute,
       bHasTrackName |-> f["bHasTrackName"], bHasPan |-> f["bHasPan"],
       bHasGain |-> f["bHasGain"], bHasSelected |-> f["bHasSelected"],
       bHasFocused |-> f["bHasFocused"], bHasSolo |-> f["bHasSolo"],
       bHasMute |-> f["bHasMute"]] :
      i \in TrackIndexValues, v \in FieldValues, f \in [FlagNames -> BOOLEAN] }

\* DefineParams: one registration per S.Define, in the order of the calls.
\* flag is the presence flag S.Optional tied to it, "" for a mandatory one.
Param(key, flag) == [key |-> key, optional |-> flag # "", flag |-> flag]

DefineParamsList ==
    << Param("TrackIndex", ""),
       Param("Name", "bHasTrackName"),
       Param("Pan", "bHasPan"),
       Param("Gain", "bHasGain"),
       Param("Selected", "bHasSelected"),
       Param("Focuseed", "bHasFocused"),
       Param("Solo", "bHasSolo"),
       Param("Mute", "bHasMute") >>

\* The while loop of Apply: t is the iterator's position (0 = null).
RECURSIVE Scan(_, _, _, _)
Scan(t, i, index, n) ==
    IF t # 0 /\ i # index
    THEN Scan(IF t < n THEN t + 1 ELSE 0, i + 1, index, n)
    ELSE [t |-> t, i |-> i]

First(n) == IF n > 0 THEN 1 ELSE 0

InvalidIndexMessage == "TrackIndex was invalid."

\* The setters of Track, WaveTrack and PlayableTrack store the value given.
SetName(t, v) == [t EXCEPT !.name = v]
SetPan(t, v) == [t EXCEPT !.pan = v]
SetGain(t, v) == [t EXCEPT !.gain = v]
SetSelected(t, v) == [t EXCEPT !.selected = v]
SetSolo(t, v) == [t EXCEPT !.solo = v]
SetMute(t, v) == [t EXCEPT !.mute = v]

\* SetFields with solo and mute guarded by the WaveTrack cast, not the
\* PlayableTrack cast.
SetFields_WaveOnly(c, t) ==
    LET wt == IsWaveTrack(t)
        t1 == IF c.bHasTrackName THEN SetName(t, c.mTrackName) ELSE t
        t2 == IF wt /\ c.bHasPan THEN SetPan(t1, c.mPan) ELSE t1
        t3 == IF wt /\ c.bHasGain THEN SetGain(t2, c.mGain) ELSE t2
        t4 == IF c.bHasSelected THEN SetSelected(t3, c.bSelected) ELSE t3
        t5 == IF wt /\ c.bHasSolo THEN SetSolo(t4, c.bSolo) ELSE t4
        t6 == IF wt /\ c.bHasMute THEN SetMute(t5, c.bMute) ELSE t5
    IN  t6

\* SetFields with the test of bHasSelected left out.
SetFields_AlwaysSelect(c, t) ==
    LET wt == IsWaveTrack(t)
        pt == IsPlayableTrack(t)
        t1 == IF c.bHasTrackName THEN SetName(t, c.mTrackName) ELSE t
        t2 == IF wt /\ c.bHasPan THEN SetPan(t1, c.mPan) ELSE t1
        t3 == IF wt /\ c.bHasGain THEN SetGain(t2, c.mGain) ELSE t2
        t4 == SetSelected(t3, c.bSelected)
        t5 == IF pt /\ c.bHasSolo THEN SetSolo(t4, c.bSolo) ELSE t4
        t6 == IF pt /\ c.bHasMute THEN SetMute(t5, c.bMute) ELSE t5
    IN  t6

\* The part of Apply after the track is found, but for the focus: wt and pt
\* are the two dynamic_casts, and the setters are called in this order.
SetFields(c, t) ==
    LET wt == IsWaveTrack(t)
        pt == IsPlayableTrack(t)
        t1 == IF c.bHasTrackName THEN SetName(t, c.mTrackName) ELSE t
        t2 == IF wt /\ c.bHasPan THEN SetPan(t1, c.mPan) ELSE t1
        t3 == IF wt /\ c.bHasGain THEN SetGain(t2, c.mGain) ELSE t2
        t4 == IF c.bHasSelected THEN SetSelected(t3, c.bSelected) ELSE t3
        t5 == IF pt /\ c.bHasSolo THEN SetSolo(t4, c.bSolo) ELSE t4
        t6 == IF pt /\ c.bHasMute THEN SetMute(t5, c.bMute) ELSE t5
    IN  t6

\* Apply with the test after the loop reduced to i != mTrackIndex: an index
\* equal to the number of tracks passes it with no track found.
ApplyOutcome_NoNullTest(c, ts, foc) ==
    LET s == Scan(First(Len(ts)), 0, c.mTrackIndex, Len(ts))
    IN  IF s.i # c.mTrackIndex
        THEN [tracks |-> ts, focused |-> foc, ok |-> FALSE,
              errors |-> <<InvalidIndexMessage>>]
        ELSE [tracks |-> IF s.t = 0 THEN ts
                         ELSE [ts EXCEPT ![s.t] = SetFields(c, ts[s.t])],
              focused |-> IF c.bHasFocused THEN s.t ELSE foc,
              ok |-> TRUE, errors |-> <<>>]

\* Apply with the focus request handled before the index is validated.
ApplyOutcome_FocusFirst(c, ts, foc) ==
    LET s == Scan(First(Len(ts)), 0, c.mTrackIndex, Len(ts))
        f == IF c.bHasFocused THEN s.t ELSE foc
    IN  IF s.i # c.mTrackIndex \/ s.t = 0
        THEN [tracks |-> ts, focused |-> f, ok |-> FALSE,
              errors |-> <<InvalidIndexMessage>>]
        ELSE [tracks |-> [ts EXCEPT ![s.t] = SetFields(c, ts[s.t])],
              focused |-> f, ok |-> TRUE, errors |-> <<>>]

\* Apply refusing an index above the range given to the shuttle.
ApplyOutcome_RangeChecked(c, ts, foc) ==
    LET s == Scan(First(Len(ts)), 0, c.mTrackIndex, Len(ts))
    IN  IF s.i # c.mTrackIndex \/ s.t = 0 \/ c.mTrackIndex > TrackIndexMax
        THEN [tracks |-> ts, focused |-> foc, ok |-> FALSE,
              errors |-> <<InvalidIndexMessage>>]
        ELSE [tracks |-> [ts EXCEPT ![s.t] = SetFields(c, ts[s.t])],
              focused |-> IF c.bHasFocused THEN s.t ELSE foc,
              ok |-> TRUE, errors |-> <<>>]

\* SetTrackInfoCommand::Apply as a function of the command and the project.
ApplyOutcome(c, ts, foc) ==
    LET s == Scan(First(Len(ts)), 0, c.mTrackIndex, Len(ts))
    IN  IF s.i # c.mTrackIndex \/ s.t = 0
        THEN [tracks |-> ts, focused |-> foc, ok |-> FALSE,
              errors |-> <<InvalidIndexMessage>>]
        ELSE [tracks |-> [ts EXCEPT ![s.t] = SetFields(c, ts[s.t])],
              focused |-> IF c.bHasFocused THEN s.t ELSE foc,
              ok |-> TRUE, errors |-> <<>>]

\* ----------------------------------------------------------------- actions

\* The Maybe objects before any of them is constructed.
MaybeIdle ==
    /\ life = [m \in {"a", "b"} |-> "unborn"]
    /\ pp = [m \in {"a", "b"} |-> 0]
    /\ nextObj = 0
    /\ mlog = <<>>
    /\ mlast = [op |-> "none", m |-> "a", that |-> "a", held |-> 0, logLen |-> 0]

\* The command before it is given a project.
ApplyIdle ==
    /\ tracks = <<>>
    /\ focused = 0
    /\ cmd = Constructed
    /\ defined = <<>>
    /\ before = [tracks |-> <<>>, focused |-> 0]
    /\ result = "none"
    /\ errors = <<>>
    /\ pc = "constructed"

\* No scope guard and no ValueRestorer yet.
GuardsIdle ==
    /\ build = [elideReturn |-> TRUE, elideInit |-> TRUE]
    /\ guards = <<>>
    /\ calls = 0
    /\ ran = [c \in 1..MaxCalls |-> 0]
    /\ fpc = "open"

RestorersIdle ==
    /\ var = [v \in {"x", "y"} |-> 0]
    /\ rs = [r \in 1..MaxRestorers |->
               [life |-> "unborn", ptr |-> "", old |-> 0, tok |-> 0]]
    /\ toks = 0
    /\ ctorValue = [t \in 1..MaxRestorers |-> 0]
    /\ restores = [t \in 1..MaxRestorers |-> 0]
    /\ released = {}

\* A constructed command and the project it will be applied to, in which no
\* track or the last track has the focus.
InitApply ==
    /\ MaybeIdle /\ GuardsIdle /\ RestorersIdle
    /\ tracks \in Projects
    /\ focused \in {0, Len(tracks)}
    /\ cmd = Constructed
    /\ defined = <<>>
    /\ before = [tracks |-> <<>>, focused |-> 0]
    /\ result = "none"
    /\ errors = <<>>
    /\ pc = "constructed"

\* DefineParams( S ): the eight parameters are registered, and the shuttle
\* leaves in the command the index, the values and the presence flags it was
\* given.
DefineParams ==
    /\ pc = "constructed"
    /\ defined' = DefineParamsList
    /\ cmd' \in Commands
    /\ pc' = "defined"
    /\ UNCHANGED <<tracks, focused, before, result, errors>>
    /\ UNCHANGED <<maybeVars, build, finalVars, restorerVars>>

\* Apply( context ), called on a command whose parameters were set.
Apply ==
    /\ pc = "defined"
    /\ LET o == ApplyOutcome(cmd, tracks, focused)
       IN  /\ tracks' = o.tracks
           /\ focused' = o.focused
           /\ result' = IF o.ok THEN "true" ELSE "false"
           /\ errors' = errors \o o.errors
    /\ before' = [tracks |-> tracks, focused |-> focused]
    /\ pc' = "applied"
    /\ UNCHANGED <<cmd, defined>>
    /\ UNCHANGED <<maybeVars, build, finalVars, restorerVars>>

NextApply == DefineParams \/ Apply

\* ----------------------------------------------------------------- Maybe<X>

\* X *pp{ nullptr }
NULL == 0

\* Two Maybe<X> objects, so that one can be copied or moved into the other.
Maybes == {"a", "b"}

\* A call of X's constructor or destructor in the buffer of Maybe m. A
\* constructor that throws leaves no object.
Ctor(m, x) == [call |-> "ctor", in |-> m, obj |-> x]
CtorThrew(m, x) == [call |-> "ctor threw", in |-> m, obj |-> x]
Dtor(m, x) == [call |-> "dtor", in |-> m, obj |-> x]

\* The state the operations of Maybe act on.
MaybeState == [pp |-> pp, log |-> mlog, next |-> nextObj]

\* X* get() const
get(s, m) == s.pp[m]

\* explicit operator bool() const
bool(s, m) == s.pp[m] # NULL

\* void reset(): if (pp) pp->~X(), pp = nullptr;
reset(s, m) ==
    IF s.pp[m] # NULL
    THEN [s EXCEPT !.log = Append(@, Dtor(m, s.pp[m])), !.pp[m] = NULL]
    ELSE s

\* create() that sets pp to the buffer before the constructor has returned.
create_PointerFirst(s, m, throws) ==
    LET r == reset(s, m)
        x == r.next + 1
    IN  IF throws
        THEN [r EXCEPT !.log = Append(@, CtorThrew(m, x)), !.next = x, !.pp[m] = x]
        ELSE [r EXCEPT !.log = Append(@, Ctor(m, x)), !.next = x, !.pp[m] = x]

\* create() that does not lose the old value first.
create_NoReset(s, m, throws) ==
    LET x == s.next + 1
    IN  IF throws
        THEN [s EXCEPT !.log = Append(@, CtorThrew(m, x)), !.next = x]
        ELSE [s EXCEPT !.log = Append(@, Ctor(m, x)), !.next = x, !.pp[m] = x]

\* void create(Args&&... args): reset(); pp = new(address()) X(args...).
\* When the constructor throws, the assignment to pp is never reached.
create(s, m, throws) ==
    LET r == reset(s, m)
        x == r.next + 1
    IN  IF throws
        THEN [r EXCEPT !.log = Append(@, CtorThrew(m, x)), !.next = x]
        ELSE [r EXCEPT !.log = Append(@, Ctor(m, x)), !.next = x, !.pp[m] = x]

\* Maybe(const Maybe &that) and Maybe(Maybe &&that): pp starts as nullptr;
\* if (that.get()) create(*that).
constructFrom(s, m, that, throws) ==
    LET s0 == [s EXCEPT !.pp[m] = NULL]
    IN  IF get(s0, that) # NULL THEN create(s0, m, throws) ELSE s0

\* operator=(const Maybe &that) and operator=(Maybe &&that).
assign(s, m, that, throws) ==
    IF m # that
    THEN IF get(s, that) # NULL THEN create(s, m, throws) ELSE reset(s, m)
    ELSE s

\* Whether the last constructor call of the log threw.
Threw(log) == log # <<>> /\ log[Len(log)].call = "ctor threw"

Last(op, m, that) ==
    [op |-> op, m |-> m, that |-> that, held |-> pp[m], logLen |-> Len(mlog)]

InitMaybe == ApplyIdle /\ MaybeIdle /\ GuardsIdle /\ RestorersIdle

Commit(s) ==
    /\ pp' = s.pp
    /\ mlog' = s.log
    /\ nextObj' = s.next

\* Maybe(): construct as NULL.
MaybeDefault(m) ==
    /\ life[m] = "unborn"
    /\ life' = [life EXCEPT ![m] = "alive"]
    /\ pp' = [pp EXCEPT ![m] = NULL]
    /\ mlast' = Last("Maybe()", m, m)
    /\ UNCHANGED <<applyVars, build, finalVars, restorerVars>>
    /\ UNCHANGED <<nextObj, mlog>>

\* Maybe(const Maybe &that): when X's constructor throws, so does this
\* constructor, and the Maybe never comes to life.
MaybeCopy(m, that, throws) ==
    /\ life[m] = "unborn" /\ life[that] = "alive"
    /\ nextObj < MaxObjects
    /\ throws => get(MaybeState, that) # NULL
    /\ LET s == constructFrom(MaybeState, m, that, throws)
       IN  /\ Commit(s)
           /\ life' = [life EXCEPT ![m] = IF Threw(s.log) /\ throws
                                          THEN "unborn" ELSE "alive"]
    /\ mlast' = Last("Maybe(const Maybe&)", m, that)
    /\ UNCHANGED <<applyVars, build, finalVars, restorerVars>>

\* Maybe(Maybe &&that)
MaybeMove(m, that, throws) ==
    /\ life[m] = "unborn" /\ life[that] = "alive"
    /\ nextObj < MaxObjects
    /\ throws => get(MaybeState, that) # NULL
    /\ LET s == constructFrom(MaybeState, m, that, throws)
       IN  /\ Commit(s)
           /\ life' = [life EXCEPT ![m] = IF Threw(s.log) /\ throws
                                          THEN "unborn" ELSE "alive"]
    /\ mlast' = Last("Maybe(Maybe&&)", m, that)
    /\ UNCHANGED <<applyVars, build, finalVars, restorerVars>>

\* Maybe& operator=(const Maybe &that)
CopyAssign(m, that, throws) ==
    /\ life[m] = "alive" /\ life[that] = "alive"
    /\ nextObj < MaxObjects
    /\ throws => (m # that /\ get(MaybeState, that) # NULL)
    /\ Commit(assign(MaybeState, m, that, throws))
    /\ mlast' = Last("operator=(const Maybe&)", m, that)
    /\ UNCHANGED <<applyVars, build, finalVars, restorerVars>>
    /\ UNCHANGED life

\* Maybe& operator=(Maybe &&that)
MoveAssign(m, that, throws) ==
    /\ life[m] = "alive" /\ life[that] = "alive"
    /\ nextObj < MaxObjects
    /\ throws => (m # that /\ get(MaybeState, that) # NULL)
    /\ Commit(assign(MaybeState, m, that, throws))
    /\ mlast' = Last("operator=(Maybe&&)", m, that)
    /\ UNCHANGED <<applyVars, build, finalVars, restorerVars>>
    /\ UNCHANGED life

Create(m, throws) ==
    /\ life[m] = "alive"
    /\ nextObj < MaxObjects
    /\ Commit(create(MaybeState, m, throws))
    /\ mlast' = Last("create", m, m)
    /\ UNCHANGED <<applyVars, build, finalVars, restorerVars>>
    /\ UNCHANGED life

Reset(m) ==
    /\ life[m] = "alive"
    /\ Commit(reset(MaybeState, m))
    /\ mlast' = Last("reset", m, m)
    /\ UNCHANGED <<applyVars, build, finalVars, restorerVars>>
    /\ UNCHANGED life

\* ~Maybe(): reset()
MaybeDestroy(m) ==
    /\ life[m] = "alive"
    /\ Commit(reset(MaybeState, m))
    /\ life' = [life EXCEPT ![m] = "dead"]
    /\ mlast' = Last("~Maybe", m, m)
    /\ UNCHANGED <<applyVars, build, finalVars, restorerVars>>

NextMaybe ==
    \E m \in Maybes :
        \/ MaybeDefault(m)
        \/ Reset(m)
        \/ MaybeDestroy(m)
        \/ \E throws \in BOOLEAN :
              \/ Create(m, throws)
              \/ \E that \in Maybes :
                    \/ MaybeCopy(m, that, throws)
                    \/ MaybeMove(m, that, throws)
                    \/ CopyAssign(m, that, throws)
                    \/ MoveAssign(m, that, throws)

\* ------------------------------------------------------------- Final_action

\* Returning a Final_action by value, and initialising a variable from the
\* returned value, each copy the object and destroy the original unless the
\* compiler elides the copy.
Builds == [elideReturn : BOOLEAN, elideInit : BOOLEAN]

\* ~Final_action() { clean(); } of an object holding the action of call c.
FinalActionDestroy(r, c) == [r EXCEPT ![c] = @ + 1]

\* Final_action<F> finally(F f) { return Final_action<F>(f); }
finally(r, c, b) == IF b.elideReturn THEN r ELSE FinalActionDestroy(r, c)

\* The destructors of the objects of a scope, run in reverse order.
RECURSIVE DestroyAll(_, _)
DestroyAll(r, gs) ==
    IF gs = <<>> THEN r
    ELSE DestroyAll(FinalActionDestroy(r, gs[Len(gs)]), SubSeq(gs, 1, Len(gs) - 1))

InitFinal ==
    /\ ApplyIdle /\ MaybeIdle /\ RestorersIdle
    /\ build \in Builds
    /\ guards = <<>>
    /\ calls = 0
    /\ ran = [c \in 1..MaxCalls |-> 0]
    /\ fpc = "open"

\* auto cleanup = finally(f);
Finally ==
    /\ fpc = "open"
    /\ calls < MaxCalls /\ Len(guards) < MaxGuards
    /\ LET c == calls + 1
           r == finally(ran, c, build)
       IN  /\ calls' = c
           /\ ran' = IF build.elideInit THEN r ELSE FinalActionDestroy(r, c)
           /\ guards' = Append(guards, c)
    /\ UNCHANGED <<fpc, build>>
    /\ UNCHANGED <<applyVars, maybeVars, restorerVars>>

\* auto other = cleanup; the implicit copy constructor of Final_action.
CopyGuard(i) ==
    /\ fpc = "open"
    /\ i \in 1..Len(guards) /\ Len(guards) < MaxGuards
    /\ guards' = Append(guards, guards[i])
    /\ UNCHANGED <<calls, ran, fpc, build>>
    /\ UNCHANGED <<applyVars, maybeVars, restorerVars>>

\* The end of the scope: every object declared in it is destroyed.
LeaveScope ==
    /\ fpc = "open"
    /\ ran' = DestroyAll(ran, guards)
    /\ guards' = <<>>
    /\ fpc' = "closed"
    /\ UNCHANGED <<calls, build>>
    /\ UNCHANGED <<applyVars, maybeVars, restorerVars>>

NextFinal ==
    \/ Finally
    \/ \E i \in 1..MaxGuards : CopyGuard(i)
    \/ LeaveScope

\* ------------------------------------------------------------ ValueRestorer

Vars == {"x", "y"}
Values == 0..MaxValue
Restorers == 1..MaxRestorers

\* The null pointer of the unique_ptr a ValueRestorer is.
NoVar == ""

\* What the operations of a ValueRestorer read and write outside of it.
Memory == [var |-> var, restores |-> restores]

\* RestoreValue<T>::operator()( T *p ): if (p) *p = oldValue;
RestoreValue(g, p, mem) ==
    IF p # NoVar
    THEN [mem EXCEPT !.var[p] = g.old, !.restores[g.tok] = @ + 1]
    ELSE mem

\* ValueRestorer( T &var, const T& newValue ): the unique_ptr is built on
\* &var with the deleter { var }, then var = newValue.
Construct(mem, v, nv, t) ==
    [g |-> [ptr |-> v, old |-> mem.var[v], tok |-> t],
     mem |-> [mem EXCEPT !.var[v] = nv]]

\* A move that copies the pointer and leaves it in the source as well.
Move_KeepsSource(g) == [to |-> g, from |-> g]

\* ValueRestorer(ValueRestorer &&that): unique_ptr's move constructor takes
\* that's pointer and deleter and leaves that null.
Move(g) == [to |-> g, from |-> [g EXCEPT !.ptr = NoVar]]

\* ~unique_ptr(): the deleter is called on a pointer that is not null.
Destroy(g, mem) == RestoreValue(g, g.ptr, mem)

\* A returned ValueRestorer handed to its receiver: moved out of the
\* original, which is then destroyed, unless the copy is elided.
Pass(c, elided) ==
    IF elided THEN c
    ELSE LET mv == Move(c.g)
         IN  [g |-> mv.to, mem |-> Destroy(mv.from, c.mem)]

\* auto r = valueRestorer( var, newValue );
valueRestorer(mem, v, nv, t, b) ==
    Pass(Pass(Construct(mem, v, nv, t), b.elideReturn), b.elideInit)

\* auto r = valueRestorer( var );
valueRestorer1(mem, v, t, b) ==
    Pass(Pass(Construct(mem, v, mem.var[v], t), b.elideReturn), b.elideInit)

\* operator=(ValueRestorer &&that) of unique_ptr, for this != &that:
\* reset(that.release()) calls this deleter on the pointer held so far, then
\* the deleter of that is taken over.
MoveAssignTo(g, that, mem) ==
    [g |-> [ptr |-> that.ptr, old |-> that.old, tok |-> that.tok],
     that |-> [that EXCEPT !.ptr = NoVar],
     mem |-> RestoreValue(g, g.ptr, mem)]

Slot(r) == [ptr |-> rs[r].ptr, old |-> rs[r].old, tok |-> rs[r].tok]

\* A destroyed ValueRestorer: nothing of it is left.
Dead == [life |-> "dead", ptr |-> NoVar, old |-> 0, tok |-> 0]

Alive(g) == [life |-> "alive", ptr |-> g.ptr, old |-> g.old, tok |-> g.tok]

InitRestorer == ApplyIdle /\ MaybeIdle /\ GuardsIdle /\ RestorersIdle

\* auto r = valueRestorer( v, newValue ); compiled with the elisions b.
MakeRestorer(r, v, nv, b) ==
    /\ rs[r].life = "unborn"
    /\ LET t == toks + 1
           c == valueRestorer(Memory, v, nv, t, b)
       IN  /\ toks' = t
           /\ ctorValue' = [ctorValue EXCEPT ![t] = var[v]]
           /\ rs' = [rs EXCEPT ![r] = Alive(c.g)]
           /\ var' = c.mem.var
           /\ restores' = c.mem.restores
    /\ UNCHANGED <<released, build>>
    /\ UNCHANGED <<applyVars, maybeVars, finalVars>>

\* auto r = valueRestorer( v ); compiled with the elisions b.
MakeRestorer1(r, v, b) ==
    /\ rs[r].life = "unborn"
    /\ LET t == toks + 1
           c == valueRestorer1(Memory, v, t, b)
       IN  /\ toks' = t
           /\ ctorValue' = [ctorValue EXCEPT ![t] = var[v]]
           /\ rs' = [rs EXCEPT ![r] = Alive(c.g)]
           /\ var' = c.mem.var
           /\ restores' = c.mem.restores
    /\ UNCHANGED <<released, build>>
    /\ UNCHANGED <<applyVars, maybeVars, finalVars>>

\* ValueRestorer r( std::move(that) );
MoveRestorer(r, that) ==
    /\ rs[r].life = "unborn" /\ rs[that].life = "alive"
    /\ LET mv == Move(Slot(that))
       IN  rs' = [rs EXCEPT ![r] = Alive(mv.to), ![that] = Alive(mv.from)]
    /\ UNCHANGED <<var, toks, ctorValue, restores, released, build>>
    /\ UNCHANGED <<applyVars, maybeVars, finalVars>>

\* r = std::move(that);
MoveAssignRestorer(r, that) ==
    /\ rs[r].life = "alive" /\ rs[that].life = "alive"
    /\ IF r # that
       THEN LET a == MoveAssignTo(Slot(r), Slot(that), Memory)
            IN  /\ rs' = [rs EXCEPT ![r] = Alive(a.g), ![that] = Alive(a.that)]
                /\ var' = a.mem.var
                /\ restores' = a.mem.restores
       ELSE UNCHANGED <<rs, var, restores>>
    /\ UNCHANGED <<toks, ctorValue, released, build>>
    /\ UNCHANGED <<applyVars, maybeVars, finalVars>>

\* r.release(): the pointer is given up, the deleter is not called.
Release(r) ==
    /\ rs[r].life = "alive"
    /\ rs' = [rs EXCEPT ![r].ptr = NoVar]
    /\ released' = IF rs[r].ptr # NoVar THEN released \cup {rs[r].tok} ELSE released
    /\ UNCHANGED <<var, toks, ctorValue, restores, build>>
    /\ UNCHANGED <<applyVars, maybeVars, finalVars>>

\* ~ValueRestorer()
DestroyRestorer(r) ==
    /\ rs[r].life = "alive"
    /\ LET mem == Destroy(Slot(r), Memory)
       IN  /\ var' = mem.var
           /\ restores' = mem.restores
    /\ rs' = [rs EXCEPT ![r] = Dead]
    /\ UNCHANGED <<toks, ctorValue, released, build>>
    /\ UNCHANGED <<applyVars, maybeVars, finalVars>>

\* The program assigns to a variable while a restorer is set on it.
AssignVar(v, x) ==
    /\ \E r \in Restorers : rs[r].life = "alive" /\ rs[r].ptr = v
    /\ var[v] # x
    /\ var' = [var EXCEPT ![v] = x]
    /\ UNCHANGED <<rs, toks, ctorValue, restores, released, build>>
    /\ UNCHANGED <<applyVars, maybeVars, finalVars>>

NextRestorer ==
    \/ \E r \in Restorers, v \in Vars, b \in Builds :
          \/ \E nv \in Values : MakeRestorer(r, v, nv, b)
          \/ MakeRestorer1(r, v, b)
    \/ \E r \in Restorers, that \in Restorers :
          \/ MoveRestorer(r, that)
          \/ MoveAssignRestorer(r, that)
    \/ \E r \in Restorers : Release(r) \/ DestroyRestorer(r)
    \/ \E v \in Vars, x \in Values : AssignVar(v, x)

\* ---------------------------------------------------------- specifications

\* The command: constructed, given its parameters, applied to a project.
SpecApply == InitApply /\ [][NextApply]_vars

\* Two Maybe<X> objects under every order of their operations.
SpecMaybe == InitMaybe /\ [][NextMaybe]_vars

\* One scope with its finally() guards, under each choice of elided copies.
SpecFinal == InitFinal /\ [][NextFinal]_vars

\* ValueRestorers set on two variables, moved, released and destroyed.
SpecRestorer == InitRestorer /\ [][NextRestorer]_vars

\* ------------------------------------------------- claims about the command

Applied == pc = "applied"

\* The command's index names a track of the project Apply was given.
ValidIndex == cmd.mTrackIndex >= 0 /\ cmd.mTrackIndex < Len(before.tracks)

\* The track the command's index names, as Apply left it and as it found it.
Indexed == tracks[cmd.mTrackIndex + 1]
IndexedBefore == before.tracks[cmd.mTrackIndex + 1]

\* C1: with an index that is negative or not below the number of tracks
\* (an empty track list included), Apply reports "TrackIndex was invalid."
\* through the context and returns false.
C1_InvalidIndexFails ==
    (Applied /\ ~ValidIndex) =>
        (result = "false" /\ errors = <<InvalidIndexMessage>>)

C1_Witness ==
    /\ Applied
    /\ Len(before.tracks) > 0
    /\ cmd.mTrackIndex = Len(before.tracks)
    /\ result = "false"

\* C2: with a valid index, each field marked present holds the command's
\* value on the indexed track exactly when the track supports it: name and
\* selected on every track, pan and gain on a wave track only, solo and mute
\* on a playable track only; otherwise the track's value is as it was.
C2_PresentFieldsApplied ==
    (Applied /\ ValidIndex) =>
        /\ cmd.bHasTrackName => Indexed.name = cmd.mTrackName
        /\ cmd.bHasSelected => Indexed.selected = cmd.bSelected
        /\ cmd.bHasPan =>
              Indexed.pan = IF IsWaveTrack(IndexedBefore)
                            THEN cmd.mPan ELSE IndexedBefore.pan
        /\ cmd.bHasGain =>
              Indexed.gain = IF IsWaveTrack(IndexedBefore)
                             THEN cmd.mGain ELSE IndexedBefore.gain
        /\ cmd.bHasSolo =>
              Indexed.solo = IF IsPlayableTrack(IndexedBefore)
                             THEN cmd.bSolo ELSE IndexedBefore.solo
        /\ cmd.bHasMute =>
              Indexed.mute = IF IsPlayableTrack(IndexedBefore)
                             THEN cmd.bMute ELSE IndexedBefore.mute

\* A playable track that is no wave track, given all six fields: solo and
\* mute changed, pan and gain did not.
C2_Witness ==
    /\ Applied /\ ValidIndex
    /\ IndexedBefore.kind = "note"
    /\ cmd.bHasTrackName /\ cmd.bHasSelected /\ cmd.bHasPan /\ cmd.bHasGain
    /\ cmd.bHasSolo /\ cmd.bHasMute
    /\ Indexed.solo # IndexedBefore.solo /\ Indexed.mute # IndexedBefore.mute
    /\ Indexed.name # IndexedBefore.name
    /\ Indexed.pan # cmd.mPan

\* C3: with a valid index, a field whose presence flag is false is left as
\* it was on the indexed track (for Focused: the panel's focused track is as
\* it was), whatever value the command holds for it.
C3_AbsentFieldsUnchanged ==
    (Applied /\ ValidIndex) =>
        /\ ~cmd.bHasTrackName => Indexed.name = IndexedBefore.name
        /\ ~cmd.bHasPan => Indexed.pan = IndexedBefore.pan
        /\ ~cmd.bHasGain => Indexed.gain = IndexedBefore.gain
        /\ ~cmd.bHasSelected => Indexed.selected = IndexedBefore.selected
        /\ ~cmd.bHasFocused => focused = before.focused
        /\ ~cmd.bHasSolo => Indexed.solo = IndexedBefore.solo
        /\ ~cmd.bHasMute => Indexed.mute = IndexedBefore.mute

\* No field is present, every value of the command differs from the wave
\* track's, and another track has the focus.
C3_Witness ==
    /\ Applied /\ ValidIndex
    /\ \A f \in FlagNames : ~cmd[f]
    /\ IsWaveTrack(IndexedBefore)
    /\ cmd.mTrackName # Indexed.name /\ cmd.mPan # Indexed.pan
    /\ cmd.mGain # Indexed.gain /\ cmd.bSelected # Indexed.selected
    /\ cmd.bSolo # Indexed.solo /\ cmd.bMute # Indexed.mute
    /\ cmd.bFocused /\ focused # cmd.mTrackIndex + 1

\* C4: when Apply fails on the index, no track's name, pan, gain, selected,
\* solo or mute changes and the focused track does not change, whichever
\* presence flags are set.
C4_FailureChangesNothing ==
    (Applied /\ result = "false") =>
        (tracks = before.tracks /\ focused = before.focused)

C4_Witness ==
    /\ Applied /\ result = "false"
    /\ \A f \in FlagNames : cmd[f]
    /\ Len(tracks) > 0
    /\ focused # 0

\* C5: the invalid index is the only error path: with 0 <= index < number
\* of tracks Apply returns true and reports nothing, for every combination
\* of flags and kind of track, and for an index above 100 as well.
C5_ValidIndexSucceeds ==
    (Applied /\ ValidIndex) => (result = "true" /\ errors = <<>>)

\* Index 101 of a project of 102 tracks, pan and solo asked of a track that
\* is neither a wave track nor playable.
C5_Witness ==
    /\ Applied
    /\ cmd.mTrackIndex > TrackIndexMax
    /\ ~IsPlayableTrack(IndexedBefore)
    /\ cmd.bHasPan /\ cmd.bHasSolo
    /\ result = "true"

\* C6: DefineParams registers exactly the eight parameters TrackIndex, Name,
\* Pan, Gain, Selected, Focused, Solo and Mute; TrackIndex is mandatory and
\* each of the others is optional, tied to its own presence flag.
C6_DocumentedParams ==
    pc # "constructed" =>
        defined = << Param("TrackIndex", ""),
                     Param("Name", "bHasTrackName"),
                     Param("Pan", "bHasPan"),
                     Param("Gain", "bHasGain"),
                     Param("Selected", "bHasSelected"),
                     Param("Focused", "bHasFocused"),
                     Param("Solo", "bHasSolo"),
                     Param("Mute", "bHasMute") >>

\* --------------------------------------------------- claims about Maybe<X>

\* How many events of log[1..k] satisfy a call name, in buffer m or on object x.
RECURSIVE CountIn(_, _, _, _)
CountIn(log, k, call, m) ==
    IF k = 0 THEN 0
    ELSE CountIn(log, k - 1, call, m)
         + (IF log[k].call = call /\ log[k].in = m THEN 1 ELSE 0)

RECURSIVE CountOf(_, _, _, _)
CountOf(log, k, call, x) ==
    IF k = 0 THEN 0
    ELSE CountOf(log, k - 1, call, x)
         + (IF log[k].call = call /\ log[k].obj = x THEN 1 ELSE 0)

CtorCount(x) == CountOf(mlog, Len(mlog), "ctor", x)
DtorCount(x) == CountOf(mlog, Len(mlog), "dtor", x)

\* The objects constructed and not yet destroyed in m's buffer after the
\* first k calls.
Live(m, k) == CountIn(mlog, k, "ctor", m) - CountIn(mlog, k, "dtor", m)

\* The last operation ran X's constructor and it threw.
LastThrew == Len(mlog) > mlast.logLen /\ Threw(mlog)

\* Before the last operation, the last thing that happened in m's buffer was
\* a constructor that threw.
ThrewBefore(m) ==
    \E k \in 1..mlast.logLen :
        /\ mlog[k].in = m /\ mlog[k].call = "ctor threw"
        /\ \A j \in (k + 1)..mlast.logLen : mlog[j].in # m

\* C7: when X's constructor throws during create(), the Maybe is left null
\* (get() is null, operator bool is false), the object it held has been
\* destroyed exactly once, and a later reset() or destructor destroys nothing.
C7_ThrowLeavesNull ==
    /\ LastThrew =>
          /\ get(MaybeState, mlast.m) = NULL
          /\ ~bool(MaybeState, mlast.m)
          /\ mlast.held # NULL => DtorCount(mlast.held) = 1
    /\ (mlast.op \in {"reset", "~Maybe"} /\ ThrewBefore(mlast.m)) =>
          Len(mlog) = mlast.logLen

\* create() threw on a Maybe that held an object, and the Maybe was then
\* destroyed.
C7_Witness ==
    /\ mlast.op = "~Maybe"
    /\ ThrewBefore(mlast.m)
    /\ \E k \in 1..Len(mlog) : mlog[k].in = mlast.m /\ mlog[k].call = "dtor"

\* C10: every X constructed in the buffer is destroyed exactly once and never
\* twice: the buffer holds one live object when get() is non-null and none
\* when it is null, create() destroys the old object before it constructs the
\* new one, reset() on a null Maybe does nothing, and a destroyed Maybe holds
\* no live object.
C10_DestroyedExactlyOnce ==
    /\ \A x \in 1..nextObj : DtorCount(x) <= CtorCount(x) /\ CtorCount(x) <= 1
    /\ \A m \in Maybes :
          /\ Live(m, Len(mlog)) = IF get(MaybeState, m) # NULL THEN 1 ELSE 0
          /\ \A k \in 0..Len(mlog) : Live(m, k) \in {0, 1}
          /\ life[m] = "dead" => Live(m, Len(mlog)) = 0
    /\ (mlast.op = "reset" /\ mlast.held = NULL) =>
          (Len(mlog) = mlast.logLen /\ pp[mlast.m] = NULL)
    /\ (\A m \in Maybes : life[m] = "dead") =>
          \A x \in 1..nextObj : DtorCount(x) = CtorCount(x)

\* Both Maybes are gone, one of them after two objects were built in it.
C10_Witness ==
    /\ \A m \in Maybes : life[m] = "dead"
    /\ \E m \in Maybes : CountIn(mlog, Len(mlog), "ctor", m) >= 2
    /\ \E x \in 1..nextObj : CtorCount(x) = 1

\* ----------------------------------------------- claims about Final_action

\* C8: the action given to finally() runs exactly once, when the guard
\* leaves scope and never before; neither the return from finally() nor a
\* copy of the guard makes it run more than once per finally() call.
C8_RunsExactlyOnce ==
    \A c \in 1..calls : ran[c] = IF fpc = "closed" THEN 1 ELSE 0

\* ---------------------------------------------- claims about ValueRestorer

\* What the steps of a ValueRestorer do to the variables.
C9_Steps ==
    /\ \A r \in Restorers, v \in Vars, nv \in Values, b \in Builds :
          MakeRestorer(r, v, nv, b) =>
              /\ var' = [var EXCEPT ![v] = nv]
              /\ rs'[r].ptr = v /\ rs'[r].old = var[v]
              /\ restores' = restores
    /\ \A r \in Restorers :
          DestroyRestorer(r) =>
              IF rs[r].ptr # NoVar
              THEN /\ var' = [var EXCEPT ![rs[r].ptr] = ctorValue[rs[r].tok]]
                   /\ restores' = [restores EXCEPT ![rs[r].tok] = 1]
              ELSE var' = var /\ restores' = restores
    /\ \A r \in Restorers :
          Release(r) => (var' = var /\ restores' = restores)
    /\ \A r, that \in Restorers :
          MoveRestorer(r, that) => (var' = var /\ restores' = restores)

\* How often each setting of a variable has been undone.
C9_Counts ==
    /\ \A t \in 1..toks :
          /\ restores[t] <= 1
          /\ t \in released => restores[t] = 0
    /\ (\A r \in Restorers : rs[r].life # "alive") =>
          \A t \in 1..toks : t \notin released => restores[t] = 1

\* C9: valueRestorer(var, newValue) assigns newValue to var; when the
\* restorer holding that setting is destroyed, var is assigned the value it
\* had at construction, exactly once even after a move (a moved-from
\* restorer restores nothing); after release() nothing is restored and var
\* keeps its current value.
C9_RestoresOnce == [][C9_Steps]_vars /\ []C9_Counts

\* A restorer set on a variable that another restorer had already changed
\* was moved into a third object or slot and destroyed there, which put the
\* variable back to the value found at construction; the moved-from restorer
\* is still alive and restores nothing.
C9_Witness ==
    \E r, that \in Restorers :
        /\ r # that
        /\ rs[r].life = "dead"
        /\ rs[that].life = "alive" /\ rs[that].ptr = NoVar
        /\ rs[that].tok # 0 /\ rs[that].tok \notin released
        /\ restores[rs[that].tok] = 1
        /\ ctorValue[rs[that].tok] # 0
        /\ \E v \in Vars : var[v] = ctorValue[rs[that].tok]

====
